---- MODULE Spec2Model ----
(***************************************************************************)
(* TicketBoss reservation engine: one event document (the seat pool), the  *)
(* reservation collection (the ledger), and the reserveSeats and           *)
(* cancelReservation handlers of ReservationService, each running its      *)
(* store operations through one session transaction.                       *)
(*                                                                         *)
(* The store is the document store the repositories call with `{session}`. *)
(* A transaction reads from the snapshot opened by its first operation,    *)
(* keeps its writes private until commitTransaction, and a write to a      *)
(* document that another transaction has written since that snapshot       *)
(* (committed or still pending) is refused at once with a write-conflict   *)
(* error: nobody waits.  A call made without a session is applied to the   *)
(* stored document in one indivisible step, some time after the method     *)
(* handed it to the store.  A write carries the clock of the instant at    *)
(* which the call issued it.                                               *)
(***************************************************************************)
EXTENDS Integers, Naturals, Sequences, FiniteSets, TLC

\* ------------------------------------------------------------------ bounds
NumCallers == 2        \* concurrent callers of the service
MaxCalls == 3          \* service calls begun in one run (also the ids drawn)
MaxCap == 2            \* total_seats of the small pool; requests ask for 1..MaxCap
MaxTime == 2           \* ticks of the wall clock
MaxVersion == 3        \* direct updateSeatsWithVersion calls stop at this version

\* ------------------------------------------------------- program constants
DEFAULT_EVENT_ID == "node-meetup-2025"
MIN_SEATS_PER_RESERVATION == 1
MAX_SEATS_PER_RESERVATION == 10
SEED_TOTAL_SEATS == 500

NOT_ENOUGH_SEATS == "Not enough seats left"
RESERVATION_NOT_FOUND == "Reservation not found or already cancelled"
EVENT_NOT_FOUND == "Event not found"
CONCURRENT_UPDATE_DETECTED == "Concurrent update detected, please retry"
\* thrown by the store, not by the service
WRITE_CONFLICT == "WriteConflict"
\* the value a successful call resolves with
OK == "ok"

Callers == 1..NumCallers
Ids == 1..MaxCalls
Units == 1..MaxCap
Capacities == {MaxCap, SEED_TOTAL_SEATS}

VARIABLES
  events,        \* the events collection: committed documents
  reservations,  \* the reservations collection: committed documents
  tx,            \* per caller: the call in progress and its transaction
  now,           \* the wall clock read by `new Date()`
  nextId,        \* the next identifier uuidv4() yields
  calls,         \* service calls begun so far
  last,          \* the transaction committed last, and the one before it
  adj,           \* direct (session-less) EventRepository calls: last answer, pending
  seed,          \* per service instance: its start-up (seedData, then listen)
  summary,       \* the getEventSummary call in progress, or its result
  http,          \* the last POST /reservations body and its screening
  listing,       \* the last answer of getAllReservations
  mark           \* direct (session-less) ReservationRepository.cancel: same

\* The state outside the reservation engine.
aux == <<seed, summary, http, listing, mark>>

vars == <<events, reservations, tx, now, nextId, calls, last, adj, aux>>

\* ------------------------------------------------------------- documents
NewEvent(id, total, avail, ver, t) ==
  [event_id |-> id, total_seats |-> total, available_seats |-> avail,
   version |-> ver, updated_at |-> t, rev |-> 0]

NewReservation(rid, eid, pid, seats, t) ==
  [reservation_id |-> rid, event_id |-> eid, partner_id |-> pid,
   seats |-> seats, status |-> "confirmed", created_at |-> t,
   cancelled_at |-> 0, rev |-> 0]

\* The documents of `docs` with those of `writes` put in place of the ones
\* that carry the same key.
OverlayE(docs, writes) ==
  writes \cup {d \in docs : \A w \in writes : w.event_id # d.event_id}

OverlayR(docs, writes) ==
  writes \cup {d \in docs : \A w \in writes : w.reservation_id # d.reservation_id}

\* ------------------------------------------------- EventRepository (pure)
\* Variant: the event id is not part of the query.
FindByIdAnyEvent(docs, eventId) == docs

\* findById: findOne({event_id})
FindById(docs, eventId) == {e \in docs : e.event_id = eventId}

\* Variants of the filter with one guard left out.
SeatsFilterNoVersion(e, eventId, seatsChange, currentVersion) ==
  /\ e.event_id = eventId
  /\ e.available_seats + seatsChange >= 0

SeatsFilterNoExpr(e, eventId, seatsChange, currentVersion) ==
  /\ e.event_id = eventId
  /\ e.version = currentVersion

\* The filter of updateSeatsWithVersion's updateOne.
SeatsFilter(e, eventId, seatsChange, currentVersion) ==
  /\ e.event_id = eventId
  /\ e.version = currentVersion
  /\ e.available_seats + seatsChange >= 0

\* Variants of the update document: available_seats left alone, the change
\* applied with the wrong sign, version left alone.
SeatsUpdateNoSeats(e, seatsChange, t) ==
  [e EXCEPT !.version = @ + 1, !.updated_at = t]

SeatsUpdateSignSlip(e, seatsChange, t) ==
  [e EXCEPT !.available_seats = @ - seatsChange,
            !.version = @ + 1,
            !.updated_at = t]

SeatsUpdateNoVersion(e, seatsChange, t) ==
  [e EXCEPT !.available_seats = @ + seatsChange, !.updated_at = t]

\* Variant: the update moves total_seats with available_seats.
SeatsUpdateMovesTotal(e, seatsChange, t) ==
  [e EXCEPT !.available_seats = @ + seatsChange,
            !.total_seats = @ + seatsChange,
            !.version = @ + 1,
            !.updated_at = t]

\* Variant: two versions per update.
SeatsUpdateVersionByTwo(e, seatsChange, t) ==
  [e EXCEPT !.available_seats = @ + seatsChange,
            !.version = @ + 2,
            !.updated_at = t]

\* The update document of updateSeatsWithVersion's updateOne.
SeatsUpdate(e, seatsChange, t) ==
  [e EXCEPT !.available_seats = @ + seatsChange,
            !.version = @ + 1,
            !.updated_at = t]

\* Variant: the status is not part of the count's filter.
GetReservationCountAnyStatus(docs, eventId) ==
  Cardinality({r \in docs : r.event_id = eventId})

\* getReservationCount: countDocuments({event_id, status: 'confirmed'})
GetReservationCount(docs, eventId) ==
  Cardinality({r \in docs : r.event_id = eventId /\ r.status = "confirmed"})

\* ------------------------------------------- ReservationRepository (pure)
\* Variant: the status is not part of the filter.
FindAnyById(docs, rid) == {r \in docs : r.reservation_id = rid}

\* findConfirmedById: findOne({reservation_id, status: 'confirmed'})
FindConfirmedById(docs, rid) ==
  {r \in docs : r.reservation_id = rid /\ r.status = "confirmed"}

\* The filter of cancel's updateOne.
CancelFilter(r, rid) == r.reservation_id = rid

\* Variant: a status outside the schema's enum.
CancelUpdateOtherStatus(r, t) ==
  [r EXCEPT !.status = "canceled", !.cancelled_at = t]

\* Variant: the update leaves cancelled_at alone.
CancelUpdateNoStamp(r, t) == [r EXCEPT !.status = "cancelled"]

\* Variant: the update also stamps created_at.
CancelUpdateStampsCreated(r, t) ==
  [r EXCEPT !.status = "cancelled", !.cancelled_at = t, !.created_at = t]

\* The update document of cancel's updateOne.
CancelUpdate(r, t) == [r EXCEPT !.status = "cancelled", !.cancelled_at = t]

\* ------------------------------------------------ ReservationService (pure)
\* Variants of the availability check: off by one, and left out.
NotEnoughSeatsOrEqual(e, seats) == e.available_seats <= seats

NotEnoughSeatsNever(e, seats) == FALSE

\* STEP 2 of reserveSeats
NotEnoughSeats(e, seats) == e.available_seats < seats

\* STEP 3 of reserveSeats: the seatsChange it passes
\* Variant: one seat taken whatever the request.
SeatsTakenOne(seats) == 0 - 1

SeatsTaken(seats) == 0 - seats

\* Variant: one seat returned whatever the reservation holds.
SeatsReturnedOne(r) == 1

\* Variant: the seats are returned twice over.
SeatsReturnedTwice(r) == r.seats + r.seats

\* STEP 4 of cancelReservation: the seatsChange it passes
SeatsReturned(r) == r.seats

\* ------------------------------------------- ReservationController (pure)
HTTP_CREATED == 201
HTTP_NO_CONTENT == 204
HTTP_NOT_FOUND == 404
HTTP_CONFLICT == 409
HTTP_INTERNAL_SERVER_ERROR == 500

\* Variant: the default case answers like a conflict.
HandleErrorDefaultConflict(message) ==
  IF message \in {RESERVATION_NOT_FOUND, EVENT_NOT_FOUND} THEN HTTP_NOT_FOUND
  ELSE HTTP_CONFLICT

\* handleError: the status sent for a thrown error message
HandleError(message) ==
  IF message = NOT_ENOUGH_SEATS THEN HTTP_CONFLICT
  ELSE IF message \in {RESERVATION_NOT_FOUND, EVENT_NOT_FOUND} THEN HTTP_NOT_FOUND
  ELSE IF message = CONCURRENT_UPDATE_DETECTED THEN HTTP_CONFLICT
  ELSE HTTP_INTERNAL_SERVER_ERROR

\* ----------------------------------------------------------- transactions
IdleTx ==
  [pc |-> "idle", op |-> "none", eventId |-> "", partnerId |-> <<>>,
   seats |-> 0, rid |-> 0, at |-> 0,
   snapE |-> {}, snapR |-> {}, event |-> {}, reservation |-> {},
   wE |-> {}, wR |-> {}, ret |-> "none"]

\* What the transaction of caller c reads: its snapshot under its own writes.
ViewE(c) == OverlayE(tx[c].snapE, tx[c].wE)
ViewR(c) == OverlayR(tx[c].snapR, tx[c].wR)

\* The store refuses c's write to the event `eventId`: the committed document
\* is no longer the one of c's snapshot, or another transaction holds a
\* pending write to it.
EventConflictNever(c, eventId) == FALSE

EventConflict(c, eventId) ==
  \/ FindById(events, eventId) # FindById(tx[c].snapE, eventId)
  \/ \E d \in Callers \ {c} : FindById(tx[d].wE, eventId) # {}

ReservationConflict(c, rid) ==
  \/ {r \in reservations : r.reservation_id = rid}
       # {r \in tx[c].snapR : r.reservation_id = rid}
  \/ \E d \in Callers \ {c} : \E w \in tx[d].wR : w.reservation_id = rid

\* The committed collection after the transaction's writes are applied.
CommitE(docs, writes) ==
  OverlayE(docs, {[w EXCEPT !.rev = @ + 1] : w \in writes})

CommitR(docs, writes) ==
  OverlayR(docs, {[w EXCEPT !.rev = @ + 1] : w \in writes})

\* The committed collection after the transaction's writes are dropped.
AbortEKeepsWrites(docs, writes) == CommitE(docs, writes)

AbortE(docs, writes) == docs

AbortRKeepsWrites(docs, writes) == CommitR(docs, writes)

AbortR(docs, writes) == docs

\* --------------------------------------------------------------- initial
NoCommit ==
  [caller |-> 0, op |-> "none", rid |-> 0, seats |-> 0, before |-> {},
   prevOp |-> "none", prevRid |-> 0, prevBefore |-> {},
   reserves |-> 0, cancels |-> 0]

\* A service instance that has started: seedData returned, the server listens.
Instances == Callers

\* `late` tells that reservations were stored when seedData looked.
Down == [pc |-> "down", created |-> FALSE, late |-> FALSE, at |-> 0]

Listening(created) ==
  [pc |-> "listening", created |-> created, late |-> FALSE, at |-> 0]

NoSummary ==
  [pc |-> "idle", eventId |-> "", sawE |-> {}, sawR |-> {}, event |-> {},
   result |-> {}]

NoRequest == [body |-> <<>>, error |-> "none"]

NoListing == [asked |-> FALSE, reservations |-> <<>>]

\* A store operation called without a session: the method has read the
\* clock and handed the operation to the store (`at` is that instant), and
\* the store applies it at a later step. Each caller has at most one.
NoCall == [op |-> "none", args |-> <<>>, at |-> 0]

NoMark ==
  [before |-> {}, rid |-> 0, ret |-> FALSE,
   issued |-> [c \in Callers |-> NoCall]]

NoAdjust ==
  [before |-> {}, seatsChange |-> 0, currentVersion |-> 0, ret |-> FALSE,
   issued |-> [c \in Callers |-> NoCall]]

Init ==
  /\ \E total \in Capacities :
       events = {NewEvent(DEFAULT_EVENT_ID, total, total, 0, 0)}
  /\ reservations = {}
  /\ tx = [c \in Callers |-> IdleTx]
  /\ now = 1
  /\ nextId = 1
  /\ calls = 0
  /\ last = NoCommit
  /\ adj = NoAdjust
  /\ seed = [i \in Instances |-> Listening(FALSE)]
  /\ summary = NoSummary
  /\ http = NoRequest
  /\ listing = NoListing
  /\ mark = NoMark

\* ------------------------------------------------------------ the clock
\* A tick is taken only once the current instant has been read by a call or
\* written somewhere: two ticks with no `new Date()` between them are not
\* observable.
Stamped(t) ==
  \/ \E c \in Callers : tx[c].at = t
  \/ \E i \in Instances : seed[i].at = t
  \/ \E c \in Callers : adj.issued[c].at = t \/ mark.issued[c].at = t
  \/ \E e \in events : e.updated_at = t
  \/ \E r \in reservations : r.created_at = t \/ r.cancelled_at = t
  \/ \E c \in Callers :
       \/ \E e \in tx[c].wE : e.updated_at = t
       \/ \E r \in tx[c].wR : r.created_at = t \/ r.cancelled_at = t

Tick ==
  /\ now < MaxTime
  /\ Stamped(now)
  /\ now' = now + 1
  /\ UNCHANGED <<events, reservations, tx, nextId, calls, last, adj, aux>>

\* What a caller keeps of a call once its session has ended.
\* Variant: the call resolves whatever happened.
EndedResolves(t, result) ==
  [t EXCEPT !.pc = "done", !.ret = OK, !.event = {}, !.reservation = {},
            !.at = 0, !.snapE = {}, !.snapR = {}, !.wE = {}, !.wR = {}]

Ended(t, result) ==
  [t EXCEPT !.pc = "done", !.ret = result, !.event = {}, !.reservation = {},
            !.at = 0, !.snapE = {}, !.snapR = {}, !.wE = {}, !.wR = {}]

\* ----------------------------------------- ReservationService.reserveSeats
\* startSession, startTransaction, STEP 1 (findById opens the snapshot) and
\* STEP 2 (the availability check). `at` is the clock as the call reads it
\* (`new Date()`, mongoose's timestamps) when it issues its next store
\* operation; that operation is applied at a later step.
ReserveStart(c, eventId, partnerId, seats) ==
  /\ tx[c].pc \in {"idle", "done"}
  /\ calls < MaxCalls
  /\ calls' = calls + 1
  /\ LET found == FindById(events, eventId)
         t == [IdleTx EXCEPT !.op = "reserve", !.eventId = eventId,
                             !.partnerId = partnerId, !.seats = seats,
                             !.snapE = events, !.snapR = reservations,
                             !.event = found]
     IN tx' = [tx EXCEPT ![c] =
          IF found = {}
            THEN [t EXCEPT !.pc = "abort", !.ret = EVENT_NOT_FOUND]
          ELSE IF \E e \in found : NotEnoughSeats(e, seats)
            THEN [t EXCEPT !.pc = "abort", !.ret = NOT_ENOUGH_SEATS]
          ELSE [t EXCEPT !.pc = "r_update", !.at = now]]
  /\ UNCHANGED <<events, reservations, now, nextId, last, adj>>

\* The partnerId caller c sends: the string of its one character, c.
PartnerOf(c) == <<c>>

\* The call of ReservationController.reserveSeats: the one configured event.
ReserveFindById(c, seats) ==
  /\ ReserveStart(c, DEFAULT_EVENT_ID, PartnerOf(c), seats)
  /\ UNCHANGED aux

\* The outcome of updateSeatsWithVersion(eventId, seatsChange, currentVersion,
\* session) in c's transaction: the transaction record after it.
\* Variant: a write to a document another transaction is writing waits for
\* that transaction to end.
UpdateSeatsWithVersionWaits(c, eventId, seatsChange, currentVersion, nextPc) ==
  LET matched == {e \in ViewE(c) :
                    SeatsFilter(e, eventId, seatsChange, currentVersion)}
  IN IF matched = {}
       THEN [tx[c] EXCEPT !.pc = "abort", !.ret = CONCURRENT_UPDATE_DETECTED]
     ELSE IF \E d \in Callers \ {c} : FindById(tx[d].wE, eventId) # {}
       THEN tx[c]
     ELSE IF EventConflict(c, eventId)
       THEN [tx[c] EXCEPT !.pc = "abort", !.ret = WRITE_CONFLICT]
     ELSE [tx[c] EXCEPT !.pc = nextPc,
             !.wE = OverlayE(@, {SeatsUpdate(e, seatsChange, tx[c].at) :
                                   e \in matched})]

UpdateSeatsWithVersion(c, eventId, seatsChange, currentVersion, nextPc) ==
  LET matched == {e \in ViewE(c) :
                    SeatsFilter(e, eventId, seatsChange, currentVersion)}
  IN IF matched = {}
       THEN [tx[c] EXCEPT !.pc = "abort", !.ret = CONCURRENT_UPDATE_DETECTED]
     ELSE IF EventConflict(c, eventId)
       THEN [tx[c] EXCEPT !.pc = "abort", !.ret = WRITE_CONFLICT]
     ELSE [tx[c] EXCEPT !.pc = nextPc,
             !.wE = OverlayE(@, {SeatsUpdate(e, seatsChange, tx[c].at) :
                                   e \in matched})]

\* STEP 3: the conditional decrement.
ReserveUpdateSeats(c) ==
  /\ tx[c].pc = "r_update"
  /\ \E e \in tx[c].event :
       LET after == UpdateSeatsWithVersion(c, tx[c].eventId,
                      SeatsTaken(tx[c].seats), e.version, "r_create")
       IN tx' = [tx EXCEPT ![c] =
            IF after.pc = "r_create" THEN [after EXCEPT !.at = now] ELSE after]
  /\ UNCHANGED <<events, reservations, now, nextId, calls, last, adj, aux>>

\* STEP 4: uuidv4() and reservationRepository.create.
ReserveCreate(c) ==
  /\ tx[c].pc = "r_create"
  /\ nextId' = nextId + 1
  /\ tx' = [tx EXCEPT ![c] =
       [@ EXCEPT !.pc = "commit", !.rid = nextId,
                 !.wR = @ \cup {NewReservation(nextId, tx[c].eventId,
                                  tx[c].partnerId, tx[c].seats, tx[c].at)}]]
  /\ UNCHANGED <<events, reservations, now, calls, last, adj, aux>>

\* ------------------------------------ ReservationService.cancelReservation
\* startSession, startTransaction and STEP 1 (findConfirmedById opens the
\* snapshot).
CancelStart(c, rid) ==
  /\ tx[c].pc \in {"idle", "done"}
  /\ calls < MaxCalls
  /\ calls' = calls + 1
  /\ LET found == FindConfirmedById(reservations, rid)
         t == [IdleTx EXCEPT !.op = "cancel", !.rid = rid,
                             !.snapE = events, !.snapR = reservations,
                             !.reservation = found]
     IN tx' = [tx EXCEPT ![c] =
          IF found = {}
            THEN [t EXCEPT !.pc = "abort", !.ret = RESERVATION_NOT_FOUND]
          ELSE [t EXCEPT !.pc = "c_findById",
                         !.seats = (CHOOSE r \in found : TRUE).seats]]
  /\ UNCHANGED <<events, reservations, now, nextId, last, adj>>

\* The call of ReservationController.cancelReservation.
CancelFindConfirmed(c, rid) ==
  /\ CancelStart(c, rid)
  /\ UNCHANGED aux

\* STEP 2: the owning event, read in the same snapshot.
\* Variant: the cancel goes on without the event.
CancelFindByIdUnchecked(c) ==
  /\ tx[c].pc = "c_findById"
  /\ LET found == UNION {FindById(ViewE(c), r.event_id) : r \in tx[c].reservation}
     IN tx' = [tx EXCEPT ![c] =
          [@ EXCEPT !.pc = "c_cancel", !.event = found, !.at = now]]
  /\ UNCHANGED <<events, reservations, now, nextId, calls, last, adj, aux>>

CancelFindById(c) ==
  /\ tx[c].pc = "c_findById"
  /\ LET found == UNION {FindById(ViewE(c), r.event_id) : r \in tx[c].reservation}
     IN tx' = [tx EXCEPT ![c] =
          IF found = {}
            THEN [@ EXCEPT !.pc = "abort", !.ret = EVENT_NOT_FOUND]
          ELSE [@ EXCEPT !.pc = "c_cancel", !.event = found, !.at = now]]
  /\ UNCHANGED <<events, reservations, now, nextId, calls, last, adj, aux>>

\* STEP 3: reservationRepository.cancel; the service drops its result.
CancelMark(c) ==
  /\ tx[c].pc = "c_cancel"
  /\ LET matched == {r \in ViewR(c) : CancelFilter(r, tx[c].rid)}
     IN tx' = [tx EXCEPT ![c] =
          IF matched = {}
            THEN [@ EXCEPT !.pc = "c_update", !.at = now]
          ELSE IF ReservationConflict(c, tx[c].rid)
            THEN [@ EXCEPT !.pc = "abort", !.ret = WRITE_CONFLICT]
          ELSE [@ EXCEPT !.pc = "c_update", !.at = now,
                  !.wR = OverlayR(@, {CancelUpdate(r, tx[c].at) :
                                        r \in matched})]]
  /\ UNCHANGED <<events, reservations, now, nextId, calls, last, adj, aux>>

\* STEP 4: the conditional increment.
CancelUpdateSeats(c) ==
  /\ tx[c].pc = "c_update"
  /\ \E e \in tx[c].event : \E r \in tx[c].reservation :
       tx' = [tx EXCEPT ![c] =
         UpdateSeatsWithVersion(c, r.event_id, SeatsReturned(r), e.version,
                                "commit")]
  /\ UNCHANGED <<events, reservations, now, nextId, calls, last, adj, aux>>

\* ------------------------------------------------------ commit and abort
\* STEP 5, `return` and `finally`: commitTransaction makes the transaction's
\* writes the committed documents in one step; endSession.
CommitTransaction(c) ==
  /\ tx[c].pc = "commit"
  /\ events' = CommitE(events, tx[c].wE)
  /\ reservations' = CommitR(reservations, tx[c].wR)
  /\ last' = [caller |-> c, op |-> tx[c].op, rid |-> tx[c].rid,
              seats |-> tx[c].seats, before |-> events,
              prevOp |-> last.op, prevRid |-> last.rid,
              prevBefore |-> last.before,
              reserves |-> last.reserves + (IF tx[c].op = "reserve" THEN 1 ELSE 0),
              cancels |-> last.cancels + (IF tx[c].op = "cancel" THEN 1 ELSE 0)]
  /\ tx' = [tx EXCEPT ![c] = Ended(@, OK)]
  /\ UNCHANGED <<now, nextId, calls, adj, aux>>

\* `catch` and `finally`: abortTransaction drops the transaction's writes,
\* the error is rethrown, endSession.
AbortTransaction(c) ==
  /\ tx[c].pc = "abort"
  /\ events' = AbortE(events, tx[c].wE)
  /\ reservations' = AbortR(reservations, tx[c].wR)
  /\ tx' = [tx EXCEPT ![c] = Ended(@, tx[c].ret)]
  /\ UNCHANGED <<now, nextId, calls, last, adj, aux>>

\* No handler reads a stored timestamp, so the clock stands still in Spec;
\* the specifications about timestamps add Tick.
Next ==
  \/ \E c \in Callers : \E seats \in Units : ReserveFindById(c, seats)
  \/ \E c \in Callers : ReserveUpdateSeats(c)
  \/ \E c \in Callers : ReserveCreate(c)
  \/ \E c \in Callers : \E rid \in Ids : CancelFindConfirmed(c, rid)
  \/ \E c \in Callers : CancelFindById(c)
  \/ \E c \in Callers : CancelMark(c)
  \/ \E c \in Callers : CancelUpdateSeats(c)
  \/ \E c \in Callers : CommitTransaction(c)
  \/ \E c \in Callers : AbortTransaction(c)

Spec == Init /\ [][Next]_vars

\* One of the callers: the single client of the specifications with one
\* client, and under SpecStall the caller whose awaits are always resumed
\* (no other caller is under any fairness there, so each of them may stop
\* for ever at any step of its call).
Runner == CHOOSE c \in Callers : TRUE

\* ------------------------------------- updateSeatsWithVersion on its own
\* The repository method called without a session, with any seatsChange and
\* any currentVersion: updateOne is then one indivisible store operation,
\* applied some time after the method has handed it to the store.
SeatsChanges == (0 - MaxCap)..MaxCap
Versions == 0..MaxVersion

\* updateSeatsWithVersion up to its await: `new Date()` is read as the
\* argument of updateOne is built, and the operation is handed to the store.
UpdateSeatsDirectIssue(c, seatsChange, currentVersion) ==
  /\ adj.issued[c].op = "none"
  /\ \A e \in events : e.version < MaxVersion
  /\ adj' = [adj EXCEPT !.issued[c] =
       [op |-> "updateSeats", args |-> <<seatsChange, currentVersion>>,
        at |-> now]]
  /\ UNCHANGED <<events, reservations, tx, now, nextId, calls, last, aux>>

\* The store applies c's pending updateOne: the document that matches the
\* filter is written with the updated_at the call gave it when it was
\* issued, and the call of c returns modifiedCount > 0.
UpdateSeatsDirectApply(c) ==
  /\ adj.issued[c].op = "updateSeats"
  /\ \A e \in events : e.version < MaxVersion
  /\ LET seatsChange == adj.issued[c].args[1]
         currentVersion == adj.issued[c].args[2]
         matched == {e \in events :
                       SeatsFilter(e, DEFAULT_EVENT_ID, seatsChange, currentVersion)}
     IN /\ events' = CommitE(events,
                        {SeatsUpdate(e, seatsChange, adj.issued[c].at) :
                           e \in matched})
        /\ adj' = [before |-> events, seatsChange |-> seatsChange,
                   currentVersion |-> currentVersion, ret |-> matched # {},
                   issued |-> [adj.issued EXCEPT ![c] = NoCall]]
  /\ UNCHANGED <<reservations, tx, now, nextId, calls, last, aux>>

\* Direct calls of every caller, with any seatsChange and any
\* currentVersion, the clock moving at any step: between the instant a call
\* is issued and the instant the store applies it the clock ticks, and the
\* calls of the other callers are issued and applied in any order.
NextAdjust ==
  \/ Tick
  \/ \E c \in Callers : \E seatsChange \in SeatsChanges :
       \E currentVersion \in Versions :
         UpdateSeatsDirectIssue(c, seatsChange, currentVersion)
  \/ \E c \in Callers : UpdateSeatsDirectApply(c)

SpecAdjust == Init /\ [][NextAdjust]_vars

\* ======================================================================
\* Properties
\* ======================================================================
\* The seats of a set of reservations, added up.
Sum(S) ==
  LET RECURSIVE sum(_)
      sum(T) == IF T = {} THEN 0
                ELSE LET x == CHOOSE y \in T : TRUE IN x.seats + sum(T \ {x})
  IN sum(S)

Confirmed(eventId) ==
  {r \in reservations : r.event_id = eventId /\ r.status = "confirmed"}

InFlight(c) == tx[c].pc \notin {"idle", "done"}

\* C1: in every committed state the event's available_seats equals its
\* total_seats minus the seats of its confirmed reservations, whatever the
\* interleaving of reserve and cancel calls and whichever of them rolled back.
C1_AvailableIsCapacityMinusConfirmed ==
  \A e \in events :
    e.available_seats = e.total_seats - Sum(Confirmed(e.event_id))

\* Two confirmed reservations are committed, and a cancel that ran beside the
\* second reserve has failed after marking its reservation and rolled back.
C1_Witness ==
  /\ \E e \in events : e.available_seats < e.total_seats
  /\ Cardinality({r \in reservations : r.status = "confirmed"}) = 2
  /\ \E c \in Callers :
       tx[c].pc = "done" /\ tx[c].op = "cancel" /\ tx[c].ret = WRITE_CONFLICT

\* C2: with requests of 1..10 seats, 0 <= available_seats <= total_seats in
\* every committed state, and the confirmed seats lie in the same range.
C2_AvailableWithinBounds ==
  /\ Units \subseteq MIN_SEATS_PER_RESERVATION..MAX_SEATS_PER_RESERVATION
  /\ \A e \in events :
       /\ 0 <= e.available_seats /\ e.available_seats <= e.total_seats
       /\ 0 <= Sum(Confirmed(e.event_id))
       /\ Sum(Confirmed(e.event_id)) <= e.total_seats

\* The pool is sold out, and a cancel has brought an earlier pool back up.
C2_Witness ==
  /\ \E e \in events : e.available_seats = 0 /\ e.total_seats > 0
  /\ \E r \in reservations : r.status = "cancelled"

\* Two callers whose reserve calls, each for all the seats of the fresh
\* pool, are the only calls made and have both ended.
TwoReservesOfAll(c1, c2) ==
  /\ c1 # c2
  /\ calls = 2
  /\ tx[c1].pc = "done" /\ tx[c1].op = "reserve"
  /\ tx[c2].pc = "done" /\ tx[c2].op = "reserve"
  /\ \E e \in events : tx[c1].seats = e.total_seats /\ tx[c2].seats = e.total_seats

\* C3: when available = u and two reserve calls for u seats each run
\* concurrently, exactly one succeeds, the other fails with
\* CONCURRENT_UPDATE_DETECTED or NOT_ENOUGH_SEATS, available ends at 0 and
\* exactly one confirmed reservation exists.
C3_OneWinsOtherGetsConflictOrInsufficient ==
  \A c1, c2 \in Callers :
    TwoReservesOfAll(c1, c2) /\ tx[c1].ret = OK =>
      /\ tx[c2].ret \in {CONCURRENT_UPDATE_DETECTED, NOT_ENOUGH_SEATS}
      /\ \A e \in events :
           e.available_seats = 0 /\ Cardinality(Confirmed(e.event_id)) = 1

\* C4: a reserve that commits and, with no other commit between, a cancel of
\* the id it returned that commits bring available_seats back to what it was
\* before the reserve.
C4_ReserveCancelRoundTrip ==
  (last.op = "cancel" /\ last.prevOp = "reserve" /\ last.prevRid = last.rid) =>
    \A e \in events : \A b \in last.prevBefore :
      e.event_id = b.event_id => e.available_seats = b.available_seats

\* The reservation was for more than one seat, and it is cancelled now.
C4_Witness ==
  /\ last.op = "cancel" /\ last.prevOp = "reserve" /\ last.prevRid = last.rid
  /\ last.seats > 1
  /\ \E r \in reservations : r.reservation_id = last.rid /\ r.status = "cancelled"

\* C5: a cancel of an id that has no confirmed reservation, because none was
\* ever created or because it is cancelled already, fails with
\* RESERVATION_NOT_FOUND (404 to the client) having written nothing.
C5_CancelUnknownOrCancelled ==
  \A c \in Callers :
    (/\ tx[c].op = "cancel"
     /\ InFlight(c)
     /\ \A r \in tx[c].snapR :
          r.reservation_id = tx[c].rid => r.status = "cancelled")
    => /\ tx[c].pc = "abort"
       /\ tx[c].ret = RESERVATION_NOT_FOUND
       /\ HandleError(tx[c].ret) = HTTP_NOT_FOUND
       /\ tx[c].wE = {} /\ tx[c].wR = {}

\* A cancel of a reservation that an earlier cancel has cancelled.
C5_Witness ==
  \E c \in Callers :
    /\ tx[c].op = "cancel" /\ tx[c].pc = "abort"
    /\ tx[c].ret = RESERVATION_NOT_FOUND
    /\ \E r \in tx[c].snapR :
         r.reservation_id = tx[c].rid /\ r.status = "cancelled"

\* C6: a reserve for exactly the seats that are available fails only if the
\* store refuses its write for a concurrent writer, and once committed it
\* leaves available_seats = 0.
C6_ReserveExactlyAvailable ==
  /\ \A c \in Callers :
       (/\ tx[c].op = "reserve" /\ tx[c].pc = "abort"
        /\ \E e \in FindById(tx[c].snapE, DEFAULT_EVENT_ID) :
             e.available_seats = tx[c].seats)
       => tx[c].ret = WRITE_CONFLICT
  /\ (/\ last.op = "reserve"
      /\ \E b \in last.before : b.available_seats = last.seats)
     => \A e \in events : e.available_seats = 0

\* A reserve for the whole capacity of a fresh pool has committed.
C6_Witness ==
  /\ last.op = "reserve" /\ last.prevOp = "none"
  /\ \E b \in last.before :
       b.available_seats = b.total_seats /\ b.total_seats = last.seats
  /\ \E e \in events : e.available_seats = 0

\* C7: a reserve for more seats than are available fails with
\* NOT_ENOUGH_SEATS having written nothing to the pool or the ledger.
C7_ReserveMoreThanAvailable ==
  \A c \in Callers :
    (/\ tx[c].op = "reserve"
     /\ InFlight(c)
     /\ \E e \in FindById(tx[c].snapE, DEFAULT_EVENT_ID) :
          e.available_seats < tx[c].seats)
    => /\ tx[c].pc = "abort"
       /\ tx[c].ret = NOT_ENOUGH_SEATS
       /\ tx[c].wE = {} /\ tx[c].wR = {}

\* A reserve for one seat more than the seats left.
C7_Witness ==
  \E c \in Callers :
    /\ tx[c].op = "reserve" /\ tx[c].pc = "abort"
    /\ tx[c].ret = NOT_ENOUGH_SEATS
    /\ \E e \in FindById(tx[c].snapE, DEFAULT_EVENT_ID) :
         e.available_seats + 1 = tx[c].seats /\ e.available_seats > 0

\* The step is the commit of a transaction whose conditional update succeeded.
CommitsAdjust(c) ==
  tx[c].pc = "commit" /\ tx'[c].pc = "done" /\ tx[c].wE # {}

\* C8: the committed version goes up by exactly 1 in the step that commits a
\* successful conditional update and is left alone by every other step, so
\* it never goes down; the update itself writes the version it read plus 1.
C8_VersionStepsByOne ==
  [][/\ \A e \in events : \A f \in events' :
          f.version = e.version
                      + (IF \E c \in Callers : CommitsAdjust(c) THEN 1 ELSE 0)
     /\ \A c \in Callers : \A w \in tx'[c].wE : \A r \in tx'[c].event :
          w.version = r.version + 1]_vars

\* Two conditional updates have committed one after the other.
C8_Witness ==
  /\ \E e \in events : e.version = 2
  /\ last.op = "cancel" /\ last.prevOp = "reserve"

\* C9: updateSeatsWithVersion called with a currentVersion that is not the
\* stored version returns false and leaves the event document as it was,
\* updated_at included, whatever the seatsChange.
C9_StaleVersionRejected ==
  (\E b \in adj.before : b.version # adj.currentVersion) =>
    adj.ret = FALSE /\ events = adj.before

\* A call that passed the version of one write earlier, with a seatsChange
\* the range guard would have let through, is answered at an instant later
\* than the document's updated_at, while the call of another caller, issued
\* at an earlier instant, still waits for the store.
C9_Witness ==
  /\ \E b \in adj.before :
       /\ b.version # adj.currentVersion
       /\ b.version = adj.currentVersion + 1
       /\ b.available_seats + adj.seatsChange >= 0
       /\ b.updated_at < now
  /\ adj.seatsChange # 0
  /\ adj.ret = FALSE
  /\ \E c \in Callers :
       adj.issued[c].op = "updateSeats" /\ adj.issued[c].at < now

\* C10: updateSeatsWithVersion whose seatsChange would take available_seats
\* below 0 returns false and leaves the document as it was even when
\* currentVersion is the stored version; available_seats is never negative.
C10_NegativeResultRejected ==
  /\ (\E b \in adj.before : b.available_seats + adj.seatsChange < 0) =>
       adj.ret = FALSE /\ events = adj.before
  /\ \A e \in events : e.available_seats >= 0

\* The version matched and only the range guard stood in the way, after
\* an earlier call had taken seats (the stored version is not 0 and fewer
\* seats than the total are left), at an instant later than the
\* document's updated_at.
C10_Witness ==
  /\ \E b \in adj.before :
       /\ b.version = adj.currentVersion
       /\ b.version > 0
       /\ b.available_seats + adj.seatsChange < 0
       /\ b.available_seats > 0
       /\ b.available_seats < b.total_seats
       /\ b.updated_at < now
  /\ adj.ret = FALSE

\* ======================================================================
\* Start-up, the summary, and callers that take turns
\* ======================================================================
EventIds == {DEFAULT_EVENT_ID, "no-such-event"}

HTTP_OK == 200

\* Variant: the seeded event starts sold out.
SeedEventNoSeats(t) ==
  NewEvent(DEFAULT_EVENT_ID, SEED_TOTAL_SEATS, 0, 0, t)

\* The document of seedData.
SeedEvent(t) ==
  NewEvent(DEFAULT_EVENT_ID, SEED_TOTAL_SEATS, SEED_TOTAL_SEATS, 0, t)

\* startServer up to seedData's findOne and, when it finds no event, the
\* call of EventModel.create: mongoose stamps the document then, with the
\* clock of that instant (`at`), and the store inserts it at a later step.
SeedFindOne(i) ==
  /\ seed[i].pc = "down"
  /\ seed' = [seed EXCEPT ![i] =
       IF FindById(events, DEFAULT_EVENT_ID) = {}
         THEN [Down EXCEPT !.pc = "create", !.at = now]
       ELSE [Listening(FALSE) EXCEPT !.late = (reservations # {})]]
  /\ UNCHANGED <<events, reservations, tx, now, nextId, calls, last, adj,
                 summary, http, listing, mark>>

\* Variant: no unique index on event_id.
SeedCreateNoIndex(i) ==
  /\ seed[i].pc = "create"
  /\ events' = events \cup {SeedEvent(seed[i].at)}
  /\ seed' = [seed EXCEPT ![i] = Listening(TRUE)]
  /\ UNCHANGED <<reservations, tx, now, nextId, calls, last, adj, summary, http, listing, mark>>

\* seedData's EventModel.create, then app.listen. The unique index on
\* event_id refuses a second document: create throws and startServer exits.
SeedCreate(i) ==
  /\ seed[i].pc = "create"
  /\ IF FindById(events, DEFAULT_EVENT_ID) = {}
       THEN /\ events' = events \cup {SeedEvent(seed[i].at)}
            /\ seed' = [seed EXCEPT ![i] = Listening(TRUE)]
       ELSE /\ events' = events
            /\ seed' = [seed EXCEPT ![i] = Down]
  /\ UNCHANGED <<reservations, tx, now, nextId, calls, last, adj, summary, http, listing, mark>>

\* gracefulShutdown; the instance may be started again.
Shutdown(i) ==
  /\ seed[i].pc = "listening"
  /\ seed' = [seed EXCEPT ![i] = Down]
  /\ UNCHANGED <<events, reservations, tx, now, nextId, calls, last, adj,
                 summary, http, listing, mark>>

\* Instance i accepts requests.
Serving(i) == seed[i].pc = "listening"

\* getEventSummary: findById, `return null` when there is no event.
SummaryFindById(eventId) ==
  /\ summary.pc \in {"idle", "done"}
  /\ LET found == FindById(events, eventId)
     IN summary' = [NoSummary EXCEPT
          !.pc = IF found = {} THEN "done" ELSE "count",
          !.eventId = eventId, !.event = found,
          !.sawE = events, !.sawR = reservations]
  /\ UNCHANGED <<events, reservations, tx, now, nextId, calls, last, adj,
                 seed, http, listing, mark>>

\* getEventSummary: getReservationCount and the returned object.
SummaryCount ==
  /\ summary.pc = "count"
  /\ summary' = [summary EXCEPT !.pc = "done",
       !.result = {[eventId |-> e.event_id, totalSeats |-> e.total_seats,
                    availableSeats |-> e.available_seats,
                    reservationCount |->
                      GetReservationCount(reservations, summary.eventId),
                    version |-> e.version] : e \in summary.event}]
  /\ UNCHANGED <<events, reservations, tx, now, nextId, calls, last, adj,
                 seed, http, listing, mark>>

\* ReservationController.getEventSummary: the status of the response.
SummaryStatus(result) ==
  IF result = {} THEN HTTP_NOT_FOUND ELSE HTTP_OK

\* Nothing else is under way: the callers take turns.
Quiet == summary.pc # "count" /\ \A c \in Callers : ~InFlight(c)

\* The engine's steps after the first, for any caller.
EngineStep ==
  \/ \E c \in Callers : ReserveUpdateSeats(c)
  \/ \E c \in Callers : ReserveCreate(c)
  \/ \E c \in Callers : CancelFindById(c)
  \/ \E c \in Callers : CancelMark(c)
  \/ \E c \in Callers : CancelUpdateSeats(c)
  \/ \E c \in Callers : CommitTransaction(c)
  \/ \E c \in Callers : AbortTransaction(c)

\* The caller has the summary's response in hand before its next call.
Answered == summary' = NoSummary /\ UNCHANGED <<seed, http, listing, mark>>

\* One call at a time against the seeded store, for any event id, and the
\* summary between calls.
NextSeq ==
  \/ \E eventId \in EventIds : Quiet /\ SummaryFindById(eventId)
  \/ SummaryCount
  \/ \E c \in Callers : \E eventId \in EventIds : \E seats \in Units :
       Quiet /\ ReserveStart(c, eventId, PartnerOf(c), seats) /\ Answered
  \/ \E c \in Callers : \E rid \in Ids :
       Quiet /\ CancelStart(c, rid) /\ Answered
  \/ EngineStep

SpecSeq == Init /\ [][NextSeq]_vars

\* The instances start, stop and start again on a store that begins empty;
\* caller c's reserve requests are served by instance c while it listens,
\* and one thing happens at a time. No reserve fails here: the event is
\* there whenever an instance listens, and MaxCalls requests of at most
\* MaxCap seats do not use up its 500.
InitSeed ==
  /\ events = {}
  /\ reservations = {}
  /\ tx = [c \in Callers |-> IdleTx]
  /\ now = 1
  /\ nextId = 1
  /\ calls = 0
  /\ last = NoCommit
  /\ adj = NoAdjust
  /\ seed = [i \in Instances |-> Down]
  /\ summary = NoSummary
  /\ http = NoRequest
  /\ listing = NoListing
  /\ mark = NoMark

NextSeed ==
  \/ \E i \in Instances : Quiet /\ SeedFindOne(i)
  \/ \E i \in Instances : Quiet /\ SeedCreate(i)
  \/ \E i \in Instances : Quiet /\ Shutdown(i)
  \/ \E c \in Callers : \E seats \in Units :
       Quiet /\ Serving(c) /\ ReserveFindById(c, seats)
  \/ \E c \in Callers : ReserveUpdateSeats(c)
  \/ \E c \in Callers : ReserveCreate(c)
  \/ \E c \in Callers : CommitTransaction(c)

SpecSeed == InitSeed /\ [][NextSeed]_vars

\* EventRepository.create up to its await: EventModel.create builds the
\* document with the given id, totals and version, mongoose stamps it with
\* the clock of that instant, and the insert is handed to the store.
\* (`name`, which the schema requires, is not part of the model's event.)
EventRepositoryCreateIssue(c, eventId, totalSeats, availableSeats, version) ==
  /\ adj.issued[c].op = "none"
  /\ adj' = [adj EXCEPT !.issued[c] =
       [op |-> "create",
        args |-> <<eventId, totalSeats, availableSeats, version>>,
        at |-> now]]
  /\ UNCHANGED <<events, reservations, tx, now, nextId, calls, last, aux>>

\* The store applies c's pending insert, stamped at the instant the call
\* was issued; the unique index on event_id refuses a second document of an
\* id, and the method throws.
EventRepositoryCreateApply(c) ==
  /\ adj.issued[c].op = "create"
  /\ LET eventId == adj.issued[c].args[1]
     IN events' =
          IF FindById(events, eventId) = {}
            THEN events \cup {NewEvent(eventId, adj.issued[c].args[2],
                                       adj.issued[c].args[3],
                                       adj.issued[c].args[4],
                                       adj.issued[c].at)}
          ELSE events
  /\ adj' = [adj EXCEPT !.issued[c] = NoCall]
  /\ UNCHANGED <<reservations, tx, now, nextId, calls, last, aux>>

\* The method on its own, on a store that begins empty at any instant: the
\* create of each caller waits for the store while the clock ticks and the
\* creates of the others are issued and applied in any order. Nothing in the program calls the
\* method (seedData inserts with EventModel.create itself), so no other
\* specification takes these steps.
InitCreate ==
  /\ events = {}
  /\ reservations = {}
  /\ tx = [c \in Callers |-> IdleTx]
  /\ now \in 1..MaxTime
  /\ nextId = 1
  /\ calls = 0
  /\ last = NoCommit
  /\ adj = NoAdjust
  /\ seed = [i \in Instances |-> Down]
  /\ summary = NoSummary
  /\ http = NoRequest
  /\ listing = NoListing
  /\ mark = NoMark

\* The documents asked for.
CreateVersions == {0, MaxVersion}

NextCreate ==
  \/ Tick
  \/ \E c \in Callers : \E eventId \in EventIds :
       \E totalSeats, availableSeats \in Units : \E version \in CreateVersions :
         EventRepositoryCreateIssue(c, eventId, totalSeats, availableSeats,
                                    version)
  \/ \E c \in Callers : EventRepositoryCreateApply(c)

SpecCreate == InitCreate /\ [][NextCreate]_vars

\* ======================================================================
\* Store failures inside a transaction
\* ======================================================================
\* Errors of the store other than the write conflict: the insert of the
\* reservation is refused, and commitTransaction is refused (the store has
\* aborted the transaction).
INSERT_FAILED == "InsertFailed"
COMMIT_FAILED == "CommitFailed"

\* STEP 4 where reservationRepository.create throws: the generated id is
\* never stored or returned.
ReserveCreateFails(c) ==
  /\ tx[c].pc = "r_create"
  /\ tx' = [tx EXCEPT ![c] = [@ EXCEPT !.pc = "abort", !.ret = INSERT_FAILED]]
  /\ UNCHANGED <<events, reservations, now, nextId, calls, last, adj, aux>>

\* STEP 5 where commitTransaction throws: the store has dropped the
\* transaction's writes; the catch block follows.
CommitFails(c) ==
  /\ tx[c].pc = "commit"
  /\ tx' = [tx EXCEPT ![c] =
       [@ EXCEPT !.pc = "abort", !.ret = COMMIT_FAILED,
                 !.wE = {}, !.wR = {}]]
  /\ UNCHANGED <<events, reservations, now, nextId, calls, last, adj, aux>>

\* The failures do not depend on how many seats are asked for: the smallest
\* and the largest request.
FaultUnits == {1, MaxCap}

NextFault ==
  \/ \E c \in Callers : \E seats \in FaultUnits : ReserveFindById(c, seats)
  \/ \E c \in Callers : \E rid \in Ids : CancelFindConfirmed(c, rid)
  \/ EngineStep
  \/ \E c \in Callers : ReserveCreateFails(c)
  \/ \E c \in Callers : CommitFails(c)

SpecFault == Init /\ [][NextFault]_vars

\* What reserveSeats and cancelReservation throw: their own four errors and
\* the errors of the store.
Thrown ==
  {NOT_ENOUGH_SEATS, RESERVATION_NOT_FOUND, EVENT_NOT_FOUND,
   CONCURRENT_UPDATE_DETECTED, WRITE_CONFLICT, INSERT_FAILED, COMMIT_FAILED}

\* ReservationController.reserveSeats / cancelReservation: the status of the
\* response to a call that returned `ret`.
ResponseStatus(op, ret) ==
  IF ret # OK THEN HandleError(ret)
  ELSE IF op = "reserve" THEN HTTP_CREATED
  ELSE HTTP_NO_CONTENT

\* ======================================================================
\* The request layer: POST /reservations
\* ======================================================================
HTTP_BAD_REQUEST == 400

PARTNER_ID_REQUIRED == "partnerId is required and must be a non-empty string"
SEATS_REQUIRED == "seats is required"
SEATS_MUST_BE_INTEGER == "seats must be an integer"
SEATS_MUST_BE_POSITIVE == "seats must be greater than 0"
SEATS_MAX_EXCEEDED == "seats must not exceed 10 per request"
NEXT == "next"

\* A value of a JSON body as the middleware sees it. A number is n, or
\* n + 1/2 when `half`; a string is the sequence of its characters.
JsValue(type, n, half, chars) ==
  [type |-> type, n |-> n, half |-> half, chars |-> chars]

Undefined == JsValue("undefined", 0, FALSE, <<>>)
Null == JsValue("null", 0, FALSE, <<>>)
Str(chars) == JsValue("string", 0, FALSE, chars)
Num(n) == JsValue("number", n, FALSE, <<>>)
NumAndHalf(n) == JsValue("number", n, TRUE, <<>>)

\* `!v`
Falsy(v) ==
  \/ v.type \in {"undefined", "null"}
  \/ v.type = "string" /\ v.chars = <<>>
  \/ v.type = "number" /\ v.n = 0 /\ ~v.half

\* The characters String.prototype.trim strips, a character being a string
\* of length one. WhiteSpace: TAB, VT (U+000B), FF, SP, NBSP (U+00A0),
\* OGHAM SPACE MARK (U+1680) and ZWNBSP (U+FEFF); LineTerminator: LF and CR.
\* The other space separators (U+2000 to U+200A, U+202F, U+205F, U+3000)
\* and the separators U+2028 and U+2029, which trim strips as well, cannot
\* be written in a string here.
WhiteSpace == {"\t", "", "\f", " ", " ", " ", "﻿"}

LineTerminator == {"\n", "\r"}

\* String.prototype.trim
RECURSIVE Trim(_)
Trim(chars) ==
  IF chars = <<>> THEN chars
  ELSE IF Head(chars) \in WhiteSpace \cup LineTerminator
    THEN Trim(Tail(chars))
  ELSE IF chars[Len(chars)] \in WhiteSpace \cup LineTerminator
    THEN Trim(SubSeq(chars, 1, Len(chars) - 1))
  ELSE chars

\* Number.isInteger
IsInteger(v) == v.type = "number" /\ ~v.half

\* Variant: the upper limit is not checked.
ValidateReservationRequestNoMax(body) ==
  IF \/ Falsy(body.partnerId)
     \/ body.partnerId.type # "string"
     \/ Trim(body.partnerId.chars) = <<>>
    THEN PARTNER_ID_REQUIRED
  ELSE IF body.seats.type \in {"undefined", "null"} THEN SEATS_REQUIRED
  ELSE IF body.seats.type # "number" \/ ~IsInteger(body.seats)
    THEN SEATS_MUST_BE_INTEGER
  ELSE IF body.seats.n < MIN_SEATS_PER_RESERVATION THEN SEATS_MUST_BE_POSITIVE
  ELSE NEXT

\* validateReservationRequest: the error it answers with, or NEXT.
\* Variant: the seats checks come before the partnerId check.
ValidateReservationRequestSeatsFirst(body) ==
  IF body.seats.type \in {"undefined", "null"} THEN SEATS_REQUIRED
  ELSE IF body.seats.type # "number" \/ ~IsInteger(body.seats)
    THEN SEATS_MUST_BE_INTEGER
  ELSE IF body.seats.n < MIN_SEATS_PER_RESERVATION THEN SEATS_MUST_BE_POSITIVE
  ELSE IF body.seats.n > MAX_SEATS_PER_RESERVATION THEN SEATS_MAX_EXCEEDED
  ELSE IF \/ Falsy(body.partnerId)
          \/ body.partnerId.type # "string"
          \/ Trim(body.partnerId.chars) = <<>>
    THEN PARTNER_ID_REQUIRED
  ELSE NEXT

ValidateReservationRequest(body) ==
  IF \/ Falsy(body.partnerId)
     \/ body.partnerId.type # "string"
     \/ Trim(body.partnerId.chars) = <<>>
    THEN PARTNER_ID_REQUIRED
  ELSE IF body.seats.type \in {"undefined", "null"} THEN SEATS_REQUIRED
  ELSE IF body.seats.type # "number" \/ ~IsInteger(body.seats)
    THEN SEATS_MUST_BE_INTEGER
  ELSE IF body.seats.n < MIN_SEATS_PER_RESERVATION THEN SEATS_MUST_BE_POSITIVE
  ELSE IF body.seats.n > MAX_SEATS_PER_RESERVATION THEN SEATS_MAX_EXCEEDED
  ELSE NEXT

\* The status the middleware sends with an error.
ValidationStatus(error) == HTTP_BAD_REQUEST

PartnerIdInputs ==
  {Undefined, Null, Num(7), Str(<<>>), Str(<<" ", " ">>), Str(<<"\t", "\n">>),
   Str(<<" ">>), Str(<<"p", "1">>), Str(<<" ", "p", "1", "\n">>)}

SeatsInputs ==
  {Undefined, Null, Str(<<"5">>), NumAndHalf(1)} \cup
  {Num(n) : n \in {0 - 1, 0, MIN_SEATS_PER_RESERVATION,
                   MAX_SEATS_PER_RESERVATION, MAX_SEATS_PER_RESERVATION + 1}}

\* The bodies sent: either field with each of its inputs while the other
\* is well formed, and the body with neither field.
Bodies ==
  {[partnerId |-> p, seats |-> Num(MIN_SEATS_PER_RESERVATION)] :
     p \in PartnerIdInputs} \cup
  {[partnerId |-> Str(<<"p", "1">>), seats |-> v] : v \in SeatsInputs} \cup
  {[partnerId |-> Undefined, seats |-> Undefined]}

\* POST /reservations: validateReservationRequest, then, on next(),
\* ReservationController.reserveSeats with the body's seats.
PostReservations(c, body) ==
  /\ tx[c].pc \in {"idle", "done"}
  /\ LET error == ValidateReservationRequest(body)
     IN /\ http' = [body |-> body, error |-> error]
        /\ IF error # NEXT
             THEN UNCHANGED <<events, reservations, tx, now, nextId, calls,
                              last, adj>>
           ELSE ReserveStart(c, DEFAULT_EVENT_ID, body.partnerId.chars,
                             body.seats.n)
  /\ UNCHANGED <<seed, summary, listing, mark>>

\* Requests come one at a time.
NextHttp ==
  \/ \E c \in Callers : \E body \in Bodies : Quiet /\ PostReservations(c, body)
  \/ \E c \in Callers : ReserveUpdateSeats(c)
  \/ \E c \in Callers : ReserveCreate(c)
  \/ \E c \in Callers : CommitTransaction(c)
  \/ \E c \in Callers : AbortTransaction(c)

SpecHttp == Init /\ [][NextHttp]_vars

\* ======================================================================
\* The summary while reserves and cancels run
\* ======================================================================
\* GET /reservations: getEventSummary(DEFAULT_EVENT_ID), its two reads taken
\* at any moment of the engine's calls. `sawE` and `sawR` keep the committed
\* collections as they were at the first read.
NextSummary ==
  \/ Next
  \/ SummaryFindById(DEFAULT_EVENT_ID)
  \/ SummaryCount

SpecSummary == Init /\ [][NextSummary]_vars

\* ======================================================================
\* The list of reservations, with the clock running
\* ======================================================================
\* The projection of getAllReservations.
ListItem(r) ==
  [reservationId |-> r.reservation_id, partnerId |-> r.partner_id,
   seats |-> r.seats, status |-> r.status, createdAt |-> r.created_at]

\* Variant: oldest first.
SortedByCreatedAsc(docs) ==
  {order \in [1..Cardinality(docs) -> docs] :
     /\ \A i, j \in 1..Cardinality(docs) : i # j => order[i] # order[j]
     /\ \A i, j \in 1..Cardinality(docs) :
          i < j => order[i].created_at <= order[j].created_at}

\* sort({created_at: -1}): the orders the store may answer with; documents
\* of equal created_at come in either order.
SortedByCreatedDesc(docs) ==
  {order \in [1..Cardinality(docs) -> docs] :
     /\ \A i, j \in 1..Cardinality(docs) : i # j => order[i] # order[j]
     /\ \A i, j \in 1..Cardinality(docs) :
          i < j => order[i].created_at >= order[j].created_at}

\* getAllReservations: one find on the committed collection.
GetAllReservations(eventId) ==
  /\ \E order \in SortedByCreatedDesc({r \in reservations : r.event_id = eventId}) :
       listing' = [asked |-> TRUE,
                   reservations |-> [i \in DOMAIN order |-> ListItem(order[i])]]
  /\ UNCHANGED <<events, reservations, tx, now, nextId, calls, last, adj,
                 seed, summary, http, mark>>

\* The caller has the list in hand before its next call.
Listed == listing' = NoListing /\ UNCHANGED <<seed, summary, http, mark>>

\* The steps of c's call after its first read.
CallStep(c) ==
  \/ ReserveUpdateSeats(c)
  \/ ReserveCreate(c)
  \/ CancelFindById(c)
  \/ CancelMark(c)
  \/ CancelUpdateSeats(c)
  \/ CommitTransaction(c)
  \/ AbortTransaction(c)

\* One client, one call at a time, the clock moving at any step of a call.
NextList ==
  \/ Tick
  \/ Quiet /\ GetAllReservations(DEFAULT_EVENT_ID)
  \/ \E seats \in FaultUnits :
       ReserveStart(Runner, DEFAULT_EVENT_ID, PartnerOf(Runner), seats) /\ Listed
  \/ \E rid \in Ids : CancelStart(Runner, rid) /\ Listed
  \/ CallStep(Runner)

SpecList == Init /\ [][NextList]_vars

\* ======================================================================
\* reservationRepository.cancel on its own
\* ======================================================================
\* cancel(reservationId) without a session: one updateOne on the committed
\* collection. The method reads the clock as it builds the $set and hands
\* the operation to the store.
RepositoryCancelIssue(c, rid) ==
  /\ ~InFlight(c)
  /\ mark.issued[c].op = "none"
  /\ mark' = [mark EXCEPT !.issued[c] =
       [op |-> "cancel", args |-> <<rid>>, at |-> now]]
  /\ UNCHANGED <<events, reservations, tx, now, nextId, calls, last, adj,
                 seed, summary, http, listing>>

\* The store applies c's pending updateOne with the cancelled_at the call
\* gave it when it was issued. modifiedCount counts the documents the $set
\* left different, and `mark` keeps the matched documents as they were,
\* with the answer.
RepositoryCancelApply(c) ==
  /\ mark.issued[c].op = "cancel"
  /\ LET rid == mark.issued[c].args[1]
         at == mark.issued[c].at
         matched == {r \in reservations : CancelFilter(r, rid)}
         modified == {r \in matched : CancelUpdate(r, at) # r}
     IN /\ reservations' = CommitR(reservations,
                             {CancelUpdate(r, at) : r \in modified})
        /\ mark' = [before |-> matched, rid |-> rid, ret |-> modified # {},
                    issued |-> [mark.issued EXCEPT ![c] = NoCall]]
  /\ UNCHANGED <<events, tx, now, nextId, calls, last, adj,
                 seed, summary, http, listing>>

\* cancel reads the reservation_id and the status of a reservation and
\* nothing else of it: the reservations it meets are made by requests of
\* one seat.
MarkUnits == {1}

\* Reserves of any callers and cancels of any id by any caller, the clock
\* moving at any step: between the instant a cancel is issued and the
\* instant the store applies it the clock ticks and the calls of the other
\* callers go on; a caller makes one call at a time.
NextMark ==
  \/ Tick
  \/ \E c \in Callers : \E seats \in MarkUnits :
       mark.issued[c].op = "none" /\ ReserveFindById(c, seats)
  \/ \E c \in Callers : ReserveUpdateSeats(c)
  \/ \E c \in Callers : ReserveCreate(c)
  \/ \E c \in Callers : CommitTransaction(c)
  \/ \E c \in Callers : AbortTransaction(c)
  \/ \E c \in Callers : \E rid \in Ids : RepositoryCancelIssue(c, rid)
  \/ \E c \in Callers : RepositoryCancelApply(c)

SpecMark == Init /\ [][NextMark]_vars

\* ======================================================================
\* One caller scheduled fairly, the others free to stop anywhere
\* ======================================================================
\* The engine's calls, reserves of one seat or of as many as a small event has.
NextStall ==
  \/ \E c \in Callers : \E seats \in FaultUnits : ReserveFindById(c, seats)
  \/ \E c \in Callers : \E rid \in Ids : CancelFindConfirmed(c, rid)
  \/ \E c \in Callers : CallStep(c)

SpecStall == Init /\ [][NextStall]_vars /\ WF_vars(CallStep(Runner))

\* ======================================================================
\* Callers that retry
\* ======================================================================
\* What the callers other than c ask for: the seats of their call, and at
\* least one seat for a caller that has not called yet.
AskedByOthers(c) ==
  Sum({[caller |-> d,
        seats |-> IF tx[d].pc = "idle" THEN 1 ELSE tx[d].seats] :
         d \in Callers \ {c}})

\* A caller that wants one reservation: it calls reserveSeats once and calls
\* again, with the same seats, when the answer was CONCURRENT_UPDATE_DETECTED
\* ("Please retry"). Together the callers ask for no more than the event has.
RetryReserve(c, seats) ==
  /\ \/ tx[c].pc = "idle"
     \/ tx[c].pc = "done" /\ tx[c].ret = CONCURRENT_UPDATE_DETECTED
                          /\ seats = tx[c].seats
  /\ \A e \in events :
       seats + AskedByOthers(c) <= e.available_seats + Sum(reservations)
  /\ ReserveFindById(c, seats)

RetryStep(c) ==
  \/ \E seats \in Units : RetryReserve(c, seats)
  \/ ReserveUpdateSeats(c)
  \/ ReserveCreate(c)
  \/ CommitTransaction(c)
  \/ AbortTransaction(c)

NextRetry == \E c \in Callers : RetryStep(c)

\* Every caller is scheduled fairly.
SpecRetry ==
  Init /\ [][NextRetry]_vars /\ \A c \in Callers : WF_vars(RetryStep(c))

\* ======================================================================
\* Ids that may collide
\* ======================================================================
DUPLICATE_KEY == "E11000 duplicate key error"

\* Variant: no unique index on reservation_id.
IdTakenNever(c, rid) == FALSE

\* The unique index on reservation_id refuses c's insert of `rid`: a stored
\* reservation has that id, or another transaction is inserting it.
IdTaken(c, rid) ==
  \/ \E r \in reservations : r.reservation_id = rid
  \/ \E d \in Callers \ {c} : \E w \in tx[d].wR : w.reservation_id = rid

\* STEP 4 with uuidv4() free to return any id, one in use included.
ReserveCreateWithId(c, rid) ==
  /\ tx[c].pc = "r_create"
  /\ tx' = [tx EXCEPT ![c] =
       IF IdTaken(c, rid)
         THEN [@ EXCEPT !.pc = "abort", !.rid = rid, !.ret = DUPLICATE_KEY]
       ELSE [@ EXCEPT !.pc = "commit", !.rid = rid,
               !.wR = @ \cup {NewReservation(rid, tx[c].eventId,
                                tx[c].partnerId, tx[c].seats, tx[c].at)}]]
  /\ UNCHANGED <<events, reservations, now, nextId, calls, last, adj, aux>>

NextIds ==
  \/ \E c \in Callers : \E seats \in FaultUnits : ReserveFindById(c, seats)
  \/ \E c \in Callers : ReserveUpdateSeats(c)
  \/ \E c \in Callers : \E rid \in Ids : ReserveCreateWithId(c, rid)
  \/ \E c \in Callers : CommitTransaction(c)
  \/ \E c \in Callers : AbortTransaction(c)

SpecIds == Init /\ [][NextIds]_vars

\* ======================================================================
\* reserveSeats called without the request validation
\* ======================================================================
\* The seats a caller of the service may pass: any integer, zero and
\* negative numbers included.
AnySeats == (0 - MaxCap)..MaxCap

\* One call at a time.
NextRange ==
  \/ \E c \in Callers : \E seats \in AnySeats : Quiet /\ ReserveFindById(c, seats)
  \/ \E c \in Callers : ReserveUpdateSeats(c)
  \/ \E c \in Callers : ReserveCreate(c)
  \/ \E c \in Callers : CommitTransaction(c)
  \/ \E c \in Callers : AbortTransaction(c)

SpecRange == Init /\ [][NextRange]_vars

\* ======================================================================
\* Requests with more than one thing wrong
\* ======================================================================
\* Every partnerId with every seats, fractions below 1 and above 10 among
\* them.
AllBodies ==
  {[partnerId |-> p, seats |-> v] :
     p \in PartnerIdInputs,
     v \in SeatsInputs \cup {NumAndHalf(0), NumAndHalf(MAX_SEATS_PER_RESERVATION)}}

\* One client sends its requests one after the other.
NextOrder ==
  \/ \E body \in AllBodies : PostReservations(Runner, body)
  \/ ReserveUpdateSeats(Runner)
  \/ ReserveCreate(Runner)
  \/ CommitTransaction(Runner)
  \/ AbortTransaction(Runner)

SpecOrder == Init /\ [][NextOrder]_vars

\* ======================================================================
\* A reservation whose event is gone
\* ======================================================================
\* The data-integrity fault cancelReservation guards against: the event
\* document is removed from the collection by something other than the
\* service, which never deletes one. The removal waits while a transaction
\* holds a pending write to the document.
EventRemoved ==
  /\ events # {}
  /\ reservations # {}
  /\ \A c \in Callers : tx[c].wE = {}
  /\ events' = {}
  /\ UNCHANGED <<reservations, tx, now, nextId, calls, last, adj, aux>>

NextOrphan ==
  \/ \E c \in Callers : \E seats \in FaultUnits : ReserveFindById(c, seats)
  \/ \E c \in Callers : \E rid \in Ids : CancelFindConfirmed(c, rid)
  \/ \E c \in Callers : CallStep(c)
  \/ EventRemoved

SpecOrphan == Init /\ [][NextOrphan]_vars

\* ======================================================================
\* Instances that start together
\* ======================================================================
\* The instances start, seed and stop at any moment, also while another
\* instance is between its findOne and its create; a caller is served by
\* its instance once that one listens.
NextRace ==
  \/ \E i \in Instances : SeedFindOne(i)
  \/ \E i \in Instances : SeedCreate(i)
  \/ \E i \in Instances : Shutdown(i)
  \/ \E c \in Callers : \E seats \in FaultUnits :
       Quiet /\ Serving(c) /\ ReserveFindById(c, seats)
  \/ \E c \in Callers : ReserveUpdateSeats(c)
  \/ \E c \in Callers : ReserveCreate(c)
  \/ \E c \in Callers : CommitTransaction(c)

SpecRace == InitSeed /\ [][NextRace]_vars

\* The instances start and stop with the clock running: the event carries
\* the instant at which seedData called create, whenever the store inserts
\* it.
NextBoot ==
  \/ Tick
  \/ \E i \in Instances : SeedFindOne(i)
  \/ \E i \in Instances : SeedCreate(i)
  \/ \E i \in Instances : Shutdown(i)

SpecBoot == InitSeed /\ [][NextBoot]_vars

\* C11: updateSeatsWithVersion called on its own with a change that would
\* take available_seats above total_seats returns false and changes nothing,
\* even when currentVersion is the stored version, so the method alone keeps
\* available_seats at or below total_seats.
C11_OverReturnRejected ==
  /\ (\E b \in adj.before :
        b.available_seats + adj.seatsChange > b.total_seats)
       => (adj.ret = FALSE /\ events = adj.before)
  /\ \A e \in events : e.available_seats <= e.total_seats

\* C12: from the seeded event (available_seats = total_seats, version 0),
\* after calls made one after another of which r reserves and c cancels
\* succeeded, the event has version r + c and available_seats = total_seats
\* minus the seats still confirmed, and getEventSummary reports exactly those
\* two numbers with reservationCount = r - c.
C12_SequentialCounts ==
  /\ \A e \in events :
       /\ e.version = last.reserves + last.cancels
       /\ e.available_seats = e.total_seats - Sum(Confirmed(e.event_id))
  /\ (summary.pc = "done" /\ summary.eventId = DEFAULT_EVENT_ID) =>
       /\ summary.result # {}
       /\ \A r \in summary.result : \A e \in events :
            /\ r.reservationCount = last.reserves - last.cancels
            /\ r.version = last.reserves + last.cancels
            /\ r.availableSeats = e.total_seats - Sum(Confirmed(e.event_id))
            /\ r.totalSeats = e.total_seats

\* Two reserves and the cancel of the first against the 500-seat event, then
\* the summary: version 3, one confirmed reservation.
C12_Witness ==
  /\ last.reserves = 2 /\ last.cancels = 1
  /\ \E r \in reservations : r.reservation_id = 1 /\ r.status = "cancelled"
  /\ summary.pc = "done"
  /\ \E r \in summary.result :
       /\ r.totalSeats = SEED_TOTAL_SEATS
       /\ r.version = 3
       /\ r.reservationCount = 1
       /\ r.availableSeats < SEED_TOTAL_SEATS

\* C13: a committed reservation is created confirmed and its status only
\* ever moves from confirmed to cancelled: no step removes a reservation or
\* makes a cancelled one confirmed again, and no status other than confirmed
\* and cancelled is ever stored.
C13_StatusOnlyConfirmedToCancelled ==
  [][/\ \A q \in reservations' : q.status \in {"confirmed", "cancelled"}
     /\ \A r \in reservations :
          \E q \in reservations' :
            /\ q.reservation_id = r.reservation_id
            /\ r.status = "cancelled" => q.status = "cancelled"
     /\ \A q \in reservations' :
          (\A r \in reservations : r.reservation_id # q.reservation_id)
            => q.status = "confirmed"]_vars

\* A reserve committed after the cancel of reservation 1, which is still
\* cancelled.
C13_Witness ==
  /\ last.op = "reserve" /\ last.prevOp = "cancel" /\ last.prevRid = 1
  /\ \E r \in reservations : r.reservation_id = 1 /\ r.status = "cancelled"
  /\ \E r \in reservations : r.reservation_id = 2 /\ r.status = "confirmed"

\* C14: a reserve that fails at any step after its transaction began, the
\* insert of the reservation or the commit after the seats were taken
\* included, leaves events and reservations exactly as they were: no step of
\* a failing reserve changes a committed document, and no committed state
\* shows seats taken without the confirmed reservations that hold them or a
\* reservation that no committed reserve created.
C14_FailedReserveLeavesNoTrace ==
  [][/\ \A c \in Callers :
          (/\ tx[c].op = "reserve" \/ tx'[c].op = "reserve"
           /\ tx'[c] # tx[c]
           /\ tx'[c].pc \in {"abort", "done"}
           /\ tx'[c].ret # OK)
            => (events' = events /\ reservations' = reservations)
     /\ \A e \in events' :
          e.available_seats = e.total_seats -
            Sum({r \in reservations' :
                   r.event_id = e.event_id /\ r.status = "confirmed"})
     /\ Cardinality(reservations') = last'.reserves]_vars

\* One reserve lost its insert and another its commit, both after their
\* decrement; the event and the ledger are as seeded.
C14_Witness ==
  /\ \E c \in Callers :
       tx[c].pc = "done" /\ tx[c].op = "reserve" /\ tx[c].ret = INSERT_FAILED
  /\ \E c \in Callers :
       tx[c].pc = "done" /\ tx[c].op = "reserve" /\ tx[c].ret = COMMIT_FAILED
  /\ reservations = {}
  /\ \A e \in events : e.available_seats = e.total_seats /\ e.version = 0

\* C15: a cancel that fails after it marked the reservation cancelled (the
\* seat update is refused, or the commit fails) leaves the reservation
\* confirmed and the event unchanged in the committed state; no committed
\* state shows a cancelled reservation whose seats were not returned.
C15_FailedCancelStaysConfirmed ==
  [][/\ \A c \in Callers :
          (/\ tx[c].op = "cancel"
           /\ tx[c].wR # {}
           /\ tx'[c].wR = {}
           /\ tx'[c].ret # OK)
            => /\ events' = events
               /\ reservations' = reservations
               /\ \E r \in reservations' :
                    r.reservation_id = tx[c].rid /\ r.status = "confirmed"
     /\ \A e \in events' :
          e.total_seats - e.available_seats =
            Sum({r \in reservations' :
                   r.event_id = e.event_id /\ r.status # "cancelled"})]_vars

\* A cancel whose commit failed after the mark and the seat update: its
\* reservation is confirmed and its seats are still taken.
C15_Witness ==
  \E c \in Callers :
    /\ tx[c].pc = "done" /\ tx[c].op = "cancel" /\ tx[c].ret = COMMIT_FAILED
    /\ \E r \in reservations :
         /\ r.reservation_id = tx[c].rid
         /\ r.status = "confirmed"
         /\ \A e \in events : e.available_seats = e.total_seats - r.seats

\* Callers c1 and c2 have both finished a cancel of the same stored
\* reservation, and the reserve that created it is the only other call made.
\* The reservation was confirmed when they ran: one of them at least found
\* it so (a cancel keeps the seats of the reservation it found).
TwoCancelsOfSame(c1, c2) ==
  /\ c1 # c2
  /\ calls = 3
  /\ tx[c1].pc = "done" /\ tx[c1].op = "cancel"
  /\ tx[c2].pc = "done" /\ tx[c2].op = "cancel"
  /\ tx[c1].rid = tx[c2].rid
  /\ \E r \in reservations : r.reservation_id = tx[c1].rid
  /\ tx[c1].seats > 0 \/ tx[c2].seats > 0

\* C16: of two cancels of the same confirmed reservation, in any
\* interleaving of their steps, exactly one succeeds and the other fails, and
\* the reservation's seats are returned exactly once.
C16_OneCancelWins ==
  \A c1, c2 \in Callers :
    TwoCancelsOfSame(c1, c2) =>
      /\ (tx[c1].ret = OK) # (tx[c2].ret = OK)
      /\ \A r \in reservations : r.status = "cancelled"
      /\ \A e \in events : e.available_seats = e.total_seats /\ e.version = 2

\* The two cancels overlapped: the loser was stopped at its write, after
\* both had found the reservation confirmed.
C16_Witness ==
  \E c1, c2 \in Callers :
    /\ TwoCancelsOfSame(c1, c2)
    /\ tx[c1].ret = OK
    /\ tx[c2].ret = WRITE_CONFLICT

\* C17: the controller answers every failure of the engine with one status:
\* 409 for not-enough-seats and for concurrent-update, 404 for
\* event-not-found and reservation-not-found, 500 for anything else; a
\* reserve that succeeded is answered 201 and a cancel that succeeded 204.
C17_StatusOfEveryOutcome ==
  LET Expected(m) ==
        IF m \in {NOT_ENOUGH_SEATS, CONCURRENT_UPDATE_DETECTED} THEN 409
        ELSE IF m \in {EVENT_NOT_FOUND, RESERVATION_NOT_FOUND} THEN 404
        ELSE 500
  IN /\ \A m \in Thrown : HandleError(m) = Expected(m)
     /\ \A c \in Callers :
          tx[c].pc = "done" =>
            ResponseStatus(tx[c].op, tx[c].ret) =
              IF tx[c].ret # OK THEN Expected(tx[c].ret)
              ELSE IF tx[c].op = "reserve" THEN 201
              ELSE 204

\* A cancel answered 500 after its commit failed, next to a reserve answered
\* 409 for lack of seats.
C17_Witness ==
  \E c1, c2 \in Callers :
    /\ tx[c1].pc = "done" /\ tx[c1].op = "cancel"
    /\ tx[c1].ret = COMMIT_FAILED
    /\ ResponseStatus(tx[c1].op, tx[c1].ret) = HTTP_INTERNAL_SERVER_ERROR
    /\ tx[c2].pc = "done" /\ tx[c2].op = "reserve"
    /\ tx[c2].ret = NOT_ENOUGH_SEATS
    /\ ResponseStatus(tx[c2].op, tx[c2].ret) = HTTP_CONFLICT

\* C18: a POST /reservations whose seats is missing, not an integer or
\* outside 1..10, or whose partnerId is missing or blank, is answered 400
\* without the engine being called: events, reservations and the engine's
\* calls are untouched; every stored reservation has seats in 1..10.
C18_InvalidRequestStopsAtValidation ==
  [][LET Blank(v) ==
           /\ v.type = "string"
           /\ \A i \in 1..Len(v.chars) :
                v.chars[i] \in WhiteSpace \cup LineTerminator
         Missing(v) == v.type \in {"undefined", "null"}
         Invalid(body) ==
           \/ Missing(body.seats)
           \/ ~(body.seats.type = "number" /\ ~body.seats.half)
           \/ body.seats.n \notin 1..10
           \/ Missing(body.partnerId)
           \/ Blank(body.partnerId)
     IN /\ (http' # http /\ Invalid(http'.body)) =>
             /\ http'.error # NEXT
             /\ ValidationStatus(http'.error) = 400
             /\ UNCHANGED <<events, reservations, tx, calls, nextId>>
        /\ \A r \in reservations' : r.seats \in 1..10]_vars

\* A request for 10 seats went through and is stored; the request for 11 that
\* followed was answered with SEATS_MAX_EXCEEDED.
C18_Witness ==
  /\ http.body # <<>>
  /\ http.body.seats = Num(11)
  /\ http.error = SEATS_MAX_EXCEEDED
  /\ \E r \in reservations : r.seats = 10
  /\ \A e \in events : e.available_seats = e.total_seats - 10

\* C19: reserveSeats for an event id that is not stored fails with
\* EVENT_NOT_FOUND before any write: it creates no reservation and changes
\* nothing; getEventSummary for such an id returns no summary and the
\* controller answers not found.
C19_UnknownEventNotFound ==
  LET Stored(eventId) == \E e \in events : e.event_id = eventId
  IN /\ \A c \in Callers :
          (tx[c].op = "reserve" /\ ~Stored(tx[c].eventId)) =>
            /\ tx[c].pc \in {"abort", "done"}
            /\ tx[c].ret = EVENT_NOT_FOUND
            /\ tx[c].wE = {} /\ tx[c].wR = {} /\ tx[c].rid = 0
     /\ \A r \in reservations : Stored(r.event_id)
     /\ (summary.pc # "idle" /\ ~Stored(summary.eventId)) =>
          /\ summary.pc = "done"
          /\ summary.result = {}
          /\ SummaryStatus(summary.result) = HTTP_NOT_FOUND
     /\ (summary.pc = "done" /\ Stored(summary.eventId)) =>
          SummaryStatus(summary.result) = HTTP_OK

\* After a committed reserve, a reserve for the unknown id has failed and
\* left the event and the ledger alone, and the summary of that id has
\* come back empty.
C19_Witness ==
  /\ \E c \in Callers :
       /\ tx[c].pc = "done" /\ tx[c].op = "reserve"
       /\ tx[c].eventId = "no-such-event"
       /\ tx[c].ret = EVENT_NOT_FOUND
  /\ summary.pc = "done" /\ summary.eventId = "no-such-event"
  /\ summary.result = {}
  /\ Cardinality(reservations) = 1
  /\ \A e \in events : e.version = 1

\* C20: seedData is idempotent: on the empty store it creates the one event
\* with available_seats = total_seats = 500 and version 0; any later run,
\* a restart after reservations were committed included, writes nothing:
\* events and reservations are as they were.
C20_SeedIsIdempotent ==
  [][/\ (events = {} /\ events' # {}) =>
          /\ Cardinality(events') = 1
          /\ \A e \in events' :
               /\ e.event_id = DEFAULT_EVENT_ID
               /\ e.total_seats = 500
               /\ e.available_seats = 500
               /\ e.version = 0
     /\ \A i \in Instances :
          (seed'[i] # seed[i] /\ events # {}) =>
            (events' = events /\ reservations' = reservations)]_vars

\* An instance started again when reservations were stored: it found the
\* event and listens without having created anything.
C20_Witness ==
  \E i \in Instances :
    /\ seed[i].pc = "listening" /\ ~seed[i].created
    /\ seed[i].late
    /\ reservations # {}
    /\ \A e \in events :
         /\ e.version = Cardinality(reservations)
         /\ e.available_seats < e.total_seats

\* C21: the summary is a snapshot of one committed state: its totalSeats,
\* availableSeats, version and reservationCount all belong to the state in
\* which the event was read (the only committed state with that version),
\* even when a reserve or a cancel commits while getEventSummary runs.
C21_SummaryIsOneCommittedState ==
  summary.pc = "done" =>
    \A r \in summary.result :
      /\ \E e \in summary.sawE :
           /\ r.totalSeats = e.total_seats
           /\ r.availableSeats = e.available_seats
           /\ r.version = e.version
      /\ r.reservationCount = GetReservationCount(summary.sawR, summary.eventId)

\* C22: getAllReservations answers with every reservation stored for the
\* event, confirmed and cancelled alike, each exactly once and with the
\* status it has now, newest first by created_at.
C22_ListIsWholeLedgerNewestFirst ==
  listing.asked =>
    LET items == listing.reservations
        n == Len(items)
    IN /\ n = Cardinality(reservations)
       /\ \A r \in reservations :
            \E i \in 1..n :
              /\ items[i] = ListItem(r)
              /\ \A j \in 1..n :
                   items[j].reservationId = r.reservation_id => j = i
       /\ \A i, j \in 1..n : i < j => items[i].createdAt >= items[j].createdAt

\* Listed: a later confirmed reservation first, then an earlier one that has
\* been cancelled.
C22_Witness ==
  /\ listing.asked
  /\ Len(listing.reservations) = 2
  /\ listing.reservations[1].status = "confirmed"
  /\ listing.reservations[2].status = "cancelled"
  /\ listing.reservations[1].createdAt > listing.reservations[2].createdAt

\* C23: reserveSeats is not idempotent: every reserve that commits stores
\* one new reservation under an id not used before and takes its seats from
\* available_seats; two successful reserves in a row, identical or not,
\* leave two distinct confirmed reservations and available_seats lower by
\* the seats of both.
C23_ReserveIsNotIdempotent ==
  /\ Cardinality({r.reservation_id : r \in reservations}) = last.reserves
  /\ Cardinality(reservations) = last.reserves
  /\ last.op = "reserve" =>
       /\ \E r \in Confirmed(DEFAULT_EVENT_ID) :
            r.reservation_id = last.rid /\ r.seats = last.seats
       /\ \A e \in events : \A b \in last.before :
            e.available_seats = b.available_seats - last.seats
  /\ (last.op = "reserve" /\ last.prevOp = "reserve") =>
       \E r1, r2 \in Confirmed(DEFAULT_EVENT_ID) :
         /\ r1.reservation_id = last.prevRid
         /\ r2.reservation_id = last.rid
         /\ r1.reservation_id # r2.reservation_id
         /\ \A e \in events : \A b \in last.prevBefore :
              e.available_seats = b.available_seats - r1.seats - r2.seats

\* The same reserve made twice by one partner: two confirmed reservations,
\* twice the seats gone.
C23_Witness ==
  /\ last.op = "reserve" /\ last.prevOp = "reserve"
  /\ \E r1, r2 \in Confirmed(DEFAULT_EVENT_ID) :
       /\ r1.reservation_id = last.prevRid
       /\ r2.reservation_id = last.rid
       /\ r1.partner_id = r2.partner_id
       /\ r1.seats = MaxCap /\ r2.seats = MaxCap
       /\ \A e \in events : \A b \in last.prevBefore :
            e.available_seats = b.available_seats - 2 * MaxCap

\* C24: the writes that commit are totally ordered: each one expected
\* exactly the version the previous one left and leaves the next version,
\* and its effect on the event and on the reservations is the effect of
\* running that call alone on the committed state.
C24_CommittedWritesAreSerial ==
  [][\A c \in Callers :
       (tx[c].pc = "commit" /\ tx'[c].pc = "done") =>
         \A e \in events : \A f \in events' :
           /\ \A r \in tx[c].event : r.version = e.version
           /\ f.version = e.version + 1
           /\ f.total_seats = e.total_seats
           /\ tx[c].op = "reserve" =>
                /\ e.available_seats >= tx[c].seats
                /\ f.available_seats = e.available_seats - tx[c].seats
                /\ \E n \in reservations' :
                     /\ n.reservation_id = tx[c].rid
                     /\ n.partner_id = PartnerOf(c)
                     /\ n.seats = tx[c].seats
                     /\ n.status = "confirmed"
                     /\ n \notin reservations
                     /\ reservations' \ {n} = reservations
           /\ tx[c].op = "cancel" =>
                \E o \in reservations : \E n \in reservations' :
                  /\ o.reservation_id = tx[c].rid
                  /\ n.reservation_id = tx[c].rid
                  /\ o.status = "confirmed"
                  /\ n.status = "cancelled"
                  /\ n.seats = o.seats
                  /\ f.available_seats = e.available_seats + o.seats
                  /\ reservations' \ {n} = reservations \ {o}]_vars

\* Two calls read version 0; one committed, the other was refused, and a
\* later call committed on version 1.
C24_Witness ==
  /\ \A e \in events : e.version = 2
  /\ \E c \in Callers : tx[c].pc = "done" /\ tx[c].ret = WRITE_CONFLICT
  /\ last.op = "cancel"

\* C25: reservationRepository.cancel changes a reservation only when a
\* confirmed row becomes cancelled, and answers true exactly then.
C25_CancelReportsTransition ==
  mark.rid # 0 =>
    (mark.ret <=> \E o \in mark.before : o.status = "confirmed")

\* The call of c has failed at its conditional write to the event.
FailedAtConditionalWrite(c) ==
  /\ tx[c].pc = "abort"
  /\ \/ tx[c].op = "reserve" /\ tx[c].event # {} /\ tx[c].ret # NOT_ENOUGH_SEATS
     \/ tx[c].op = "cancel" /\ tx[c].wR # {}

\* C27: of the calls that read the event at one version at most one
\* commits; another one that reaches its conditional write after that
\* commit fails with CONCURRENT_UPDATE_DETECTED and has no write left.
C27_SameVersionLoserGetsConcurrentUpdate ==
  \A c \in Callers : \A r \in tx[c].event : \A b \in last.before :
    (last.caller # c /\ r.version = b.version) =>
      /\ tx[c].pc # "commit"
      /\ FailedAtConditionalWrite(c) =>
           /\ tx[c].ret = CONCURRENT_UPDATE_DETECTED
           /\ tx[c].wE = {}

\* How far a call has got: every step of a call moves it forward.
Progress(pc) ==
  CASE pc = "r_update" -> 1
    [] pc = "c_findById" -> 1
    [] pc = "r_create" -> 2
    [] pc = "c_cancel" -> 2
    [] pc = "c_update" -> 3
    [] pc = "commit" -> 4
    [] pc = "abort" -> 5
    [] OTHER -> 6

\* C28: a call ends, committed or aborted, after a bounded number of its own
\* steps whatever the other callers do: each of its steps moves it forward,
\* and it reaches its end even when every other caller has stopped in the
\* middle of a call.
C28_CallEndsWhateverOthersDo ==
  /\ [][\A c \in Callers :
          (InFlight(c) /\ tx'[c] # tx[c]) =>
            Progress(tx'[c].pc) > Progress(tx[c].pc)]_vars
  /\ (InFlight(Runner) ~> tx[Runner].pc = "done")

\* The runner's write was refused while another caller sat on a pending
\* write of its own, and the runner's call has ended all the same.
C28_Witness ==
  /\ tx[Runner].pc = "done" /\ tx[Runner].ret = WRITE_CONFLICT
  /\ \E d \in Callers \ {Runner} : tx[d].pc \in {"r_create", "commit"}

\* C29: callers that each want one reservation, together no more seats than
\* the event has, and that call again on CONCURRENT_UPDATE_DETECTED all get
\* their reservation confirmed in the end.
C29_EveryCallerEventuallyConfirmed ==
  <>(\A c \in Callers :
       \E r \in Confirmed(DEFAULT_EVENT_ID) : r.partner_id = PartnerOf(c))

\* C30: a stored reservation is never removed, and its reservation_id,
\* event_id, partner_id, seats and created_at never change: the set of
\* reservation ids only grows.
C30_LedgerIsAppendOnly ==
  [][\A r \in reservations :
       \E n \in reservations' :
         /\ n.reservation_id = r.reservation_id
         /\ n.event_id = r.event_id
         /\ n.partner_id = r.partner_id
         /\ n.seats = r.seats
         /\ n.created_at = r.created_at]_vars

\* A reservation cancelled after the instant it was created, and a later
\* reservation stored next to it.
C30_Witness ==
  \E r, n \in reservations :
    /\ r.status = "cancelled" /\ r.cancelled_at > r.created_at
    /\ n.status = "confirmed" /\ n.created_at > r.created_at

\* C31: a stored reservation has cancelled_at set exactly when its status
\* is cancelled, and a cancelled_at that is set is left as it is by every
\* later call, a cancelReservation of the same id included.
C31_CancelledAtSetOnceWithStatus ==
  [][/\ \A n \in reservations' :
          (n.cancelled_at # 0) <=> (n.status = "cancelled")
     /\ \A r \in reservations : \A n \in reservations' :
          (r.cancelled_at # 0 /\ n.reservation_id = r.reservation_id) =>
            n.cancelled_at = r.cancelled_at]_vars

\* A reservation was cancelled, and at a later instant a second
\* cancelReservation of that id was turned away.
C31_Witness ==
  \E c \in Callers : \E r \in reservations :
    /\ r.partner_id = PartnerOf(c)
    /\ r.status = "cancelled"
    /\ last.op = "cancel" /\ last.rid = r.reservation_id
    /\ tx[c].pc = "done" /\ tx[c].op = "cancel"
    /\ tx[c].rid = r.reservation_id
    /\ tx[c].ret = RESERVATION_NOT_FOUND
    /\ now > r.cancelled_at

\* C32: no two stored reservations share an id: a reserve commits only
\* under an id no stored reservation has, and a reserve whose generated id
\* is in use ends with the store's duplicate-key error, without a second
\* attempt, leaving the event and the reservations as they were.
C32_CollidingIdFailsAndRollsBack ==
  [][\A c \in Callers :
       /\ (tx[c].pc = "commit" /\ tx'[c].pc = "done") =>
            /\ \A r \in reservations : r.reservation_id # tx[c].rid
            /\ Cardinality(reservations') = Cardinality(reservations) + 1
       /\ (tx[c].pc = "r_create" /\ tx'[c] # tx[c] /\ IdTaken(c, tx'[c].rid)) =>
            tx'[c].pc = "abort" /\ tx'[c].ret = DUPLICATE_KEY
       /\ (tx[c].ret = DUPLICATE_KEY /\ tx'[c] # tx[c] /\ tx[c].pc = "abort") =>
            /\ tx'[c].pc = "done" /\ tx'[c].ret = DUPLICATE_KEY
            /\ events' = events /\ reservations' = reservations]_vars

\* A reserve drew the id of a stored reservation and has ended; the seats
\* it had taken in its transaction are back.
C32_Witness ==
  \E c \in Callers : \E r \in reservations : \E e \in events :
    /\ tx[c].pc = "done" /\ tx[c].ret = DUPLICATE_KEY
    /\ r.reservation_id = tx[c].rid
    /\ Cardinality(reservations) = 1
    /\ e.available_seats = e.total_seats - r.seats

\* C33: reserveSeats called with zero or negative seats is rejected and
\* changes nothing: no stored reservation has seats below 1, and
\* available_seats never goes above what the event had.
C33_NonPositiveSeatsRejected ==
  /\ \A c \in Callers :
       (tx[c].pc = "done" /\ tx[c].op = "reserve" /\ tx[c].seats <= 0) =>
         tx[c].ret # OK
  /\ \A r \in reservations : r.seats > 0
  /\ \A e \in events : e.available_seats <= e.total_seats

\* C34: no call changes the event's event_id or total_seats; a reserve
\* leaves every stored reservation as it is, and a cancel that commits
\* changes the status and cancelled_at of the reservation it was given and
\* nothing of any other reservation.
C34_CallsChangeOnlyTheirOwn ==
  [][/\ \A e \in events : \E f \in events' :
          f.event_id = e.event_id /\ f.total_seats = e.total_seats
     /\ Cardinality(events') = Cardinality(events)
     /\ \A c \in Callers :
          /\ (tx[c].op = "reserve" /\ tx'[c] # tx[c]) =>
               \A r \in reservations : r \in reservations'
          /\ (tx[c].op = "cancel" /\ tx[c].pc = "commit" /\ tx'[c].pc = "done") =>
               \A r \in reservations :
                 IF r.reservation_id = tx[c].rid
                   THEN \E n \in reservations' :
                          /\ n.status = "cancelled"
                          /\ [n EXCEPT !.status = r.status,
                                       !.cancelled_at = r.cancelled_at,
                                       !.rev = r.rev] = r
                   ELSE r \in reservations']_vars

\* A cancel has committed next to a confirmed reservation of another
\* caller.
C34_Witness ==
  /\ last.op = "cancel"
  /\ \E r, o \in reservations :
       /\ r.reservation_id = last.rid /\ r.status = "cancelled"
       /\ o.status = "confirmed" /\ o.partner_id # r.partner_id

\* C35: validateReservationRequest answers with one error, the first that
\* applies in this order: partnerId missing or blank, seats missing, seats
\* not an integer, seats below 1, seats above 10; a request none applies
\* to is handed to reserveSeats with its seats.
C35_FirstFailingCheckIsReported ==
  http.body # <<>> =>
    LET p == http.body.partnerId
        v == http.body.seats
        NoPartner == \/ p.type # "string"
                     \/ \A i \in 1..Len(p.chars) :
                          p.chars[i] \in WhiteSpace \cup LineTerminator
        NoSeats == v.type \in {"undefined", "null"}
        NotInteger == v.type # "number" \/ v.half
    IN /\ NoPartner => http.error = PARTNER_ID_REQUIRED
       /\ (~NoPartner /\ NoSeats) => http.error = SEATS_REQUIRED
       /\ (~NoPartner /\ ~NoSeats /\ NotInteger) =>
            http.error = SEATS_MUST_BE_INTEGER
       /\ (~NoPartner /\ ~NoSeats /\ ~NotInteger /\ v.n < 1) =>
            http.error = SEATS_MUST_BE_POSITIVE
       /\ (~NoPartner /\ ~NoSeats /\ ~NotInteger /\ v.n > 10) =>
            http.error = SEATS_MAX_EXCEEDED
       /\ (~NoPartner /\ ~NoSeats /\ ~NotInteger /\ v.n \in 1..10) =>
            /\ http.error = NEXT
            /\ \E c \in Callers : tx[c].op = "reserve" /\ tx[c].seats = v.n

\* A request of ten and a half seats with a partnerId of a tab and a line
\* feed, sent after a request that went through, was answered with the
\* partnerId error.
C35_Witness ==
  /\ http.body # <<>>
  /\ http.body.partnerId = Str(<<"\t", "\n">>)
  /\ http.body.seats = NumAndHalf(MAX_SEATS_PER_RESERVATION)
  /\ http.error = PARTNER_ID_REQUIRED
  /\ reservations # {}

\* C36: in every committed state the event's version is the number of
\* stored reservations plus the number of them that are cancelled, however
\* the reserves and cancels of the callers interleave.
C36_VersionCountsReservesAndCancels ==
  \A e \in events :
    e.version = Cardinality(reservations)
                + Cardinality({r \in reservations : r.status = "cancelled"})

\* Three writes have committed: a cancelled reservation and a confirmed one
\* are stored.
C36_Witness ==
  /\ \A e \in events : e.version = 3
  /\ Cardinality(reservations) = 2
  /\ \E r \in reservations : r.status = "cancelled"

\* C37: a cancelReservation that has found its confirmed reservation and
\* then finds no event fails with EVENT_NOT_FOUND before it writes
\* anything: the reservation stays confirmed and nothing stored changes.
C37_CancelWithoutEventFailsBeforeWriting ==
  [][\A c \in Callers :
       /\ (/\ tx[c].pc = "c_findById" /\ tx'[c] # tx[c]
           /\ \A r \in tx[c].reservation : FindById(ViewE(c), r.event_id) = {}) =>
            /\ tx'[c].pc = "abort" /\ tx'[c].ret = EVENT_NOT_FOUND
            /\ tx'[c].wE = {} /\ tx'[c].wR = {}
       /\ (/\ tx[c].op = "cancel" /\ tx[c].pc = "abort" /\ tx'[c] # tx[c]
           /\ tx[c].ret = EVENT_NOT_FOUND) =>
            /\ tx'[c].pc = "done" /\ tx'[c].ret = EVENT_NOT_FOUND
            /\ reservations' = reservations /\ events' = events
            /\ \E r \in reservations' :
                 r.reservation_id = tx[c].rid /\ r.status = "confirmed"]_vars

\* The cancel of a confirmed reservation has ended with EVENT_NOT_FOUND.
C37_Witness ==
  \E c \in Callers : \E r \in reservations :
    /\ tx[c].pc = "done" /\ tx[c].op = "cancel"
    /\ tx[c].ret = EVENT_NOT_FOUND
    /\ r.reservation_id = tx[c].rid /\ r.status = "confirmed"
    /\ events = {}

\* C38: with instances running seedData at the same time, each having
\* looked for the event before any created it, at most one event document
\* is ever stored, and an event with committed reservations is never put
\* back to available_seats = total_seats and version 0.
C38_ConcurrentSeedKeepsOneEvent ==
  /\ Cardinality(events) <= 1
  /\ reservations # {} =>
       /\ events # {}
       /\ \A e \in events :
            /\ e.event_id = DEFAULT_EVENT_ID
            /\ e.version = Cardinality(reservations)
            /\ e.available_seats = e.total_seats - Sum(reservations)

\* An instance that found no event is about to create it, while another
\* has created it and reservations have been committed since.
C38_Witness ==
  \E i, j \in Instances :
    /\ seed[i].pc = "create"
    /\ seed[j].pc = "listening" /\ seed[j].created
    /\ reservations # {}
    /\ \A e \in events : e.available_seats < e.total_seats

\* C39: a call ends its transaction once: by commitTransaction, after which
\* it resolves, or by abortTransaction on a failure, after which it throws
\* and nothing stored has changed; either way its session is
\* over, and nothing more happens to the transaction until the caller's
\* next call.
C39_TransactionEndsOnce ==
  [][\A c \in Callers :
       /\ (tx[c].pc # "done" /\ tx'[c].pc = "done") =>
            /\ \/ /\ tx[c].pc = "commit"
                  /\ tx'[c].ret = OK
                  /\ events' = CommitE(events, tx[c].wE)
                  /\ reservations' = CommitR(reservations, tx[c].wR)
               \/ /\ tx[c].pc = "abort"
                  /\ tx'[c].ret # OK
                  /\ events' = events /\ reservations' = reservations
            /\ tx'[c].wE = {} /\ tx'[c].wR = {}
            /\ tx'[c].snapE = {} /\ tx'[c].snapR = {}
       /\ (tx[c].pc = "abort" /\ tx'[c] # tx[c]) => tx'[c].pc = "done"
       /\ (tx[c].pc = "commit" /\ tx'[c] # tx[c]) =>
            tx'[c].pc \in {"done", "abort"}
       /\ (tx[c].pc = "done" /\ tx'[c] # tx[c]) =>
            /\ calls' = calls + 1
            /\ tx'[c].ret \in {"none", EVENT_NOT_FOUND, NOT_ENOUGH_SEATS,
                               RESERVATION_NOT_FOUND}
            /\ tx'[c].wE = {} /\ tx'[c].wR = {}]_vars

\* One call's commitTransaction failed and the call threw; another call
\* committed and resolved.
C39_Witness ==
  \E c, d \in Callers :
    /\ tx[c].pc = "done" /\ tx[c].ret = COMMIT_FAILED
    /\ tx[d].pc = "done" /\ tx[d].ret = OK
    /\ last.caller = d
    /\ Cardinality(reservations) = last.reserves

====
